---- MODULE Spec2Model ----
(***************************************************************************)
(* Model of the DockerCompose class: the argument vector each subcommand   *)
(* builds, the materialisation of inline compose configurations and the    *)
(* blocking contract of each public method.                                *)
(*                                                                         *)
(* Strings are modelled as sequences of atoms: a literal or an input       *)
(* string is a one-atom sequence and string concatenation (template        *)
(* literals, Array.prototype.join) is \o. An argument vector is a          *)
(* sequence of such strings. An optional value is <<>> (undefined) or      *)
(* <<v>>.                                                                  *)
(***************************************************************************)
EXTENDS Integers, Sequences, FiniteSets, TLC

VARIABLES
    _file,          \* this._file: [isArray, elems]
    _directory,     \* this._directory: a path [abs, segs]
    _projectName,   \* this._projectName: <<>> or <<name>>
    files,          \* the filesystem: path string -> content written
    pendingWrites,  \* fs.writeFile calls in flight
    procs,          \* the child processes execa has spawned, by handle
    pc,             \* position of the caller's current call
    call,           \* the current call: method, arguments, promises, argv
    result,         \* what the current call gave back to its caller
    callsLeft       \* the calls the caller has yet to make

vars == <<_file, _directory, _projectName, files, pendingWrites, procs, pc, call, result, callsLeft>>

----------------------------------------------------------------------------
(* Bounds *)

MaxFiles == 2       \* longest configuration-source list
MaxCalls == 2       \* calls made on one session
MaxIndexKey == 10   \* largest integer-like object key told apart
MaxEntries == 2     \* most entries of a map-valued option
MaxList == 2        \* longest list-valued option and trailing argument list

----------------------------------------------------------------------------
(* Strings, optional values, JavaScript truthiness *)

Str(s) == <<s>>

Undefined == <<>>

Some(v) == <<v>>

TruthyBool(x) == x # Undefined /\ x[1]

TruthyStr(x) == x # Undefined /\ x[1] # ""

TruthyNum(x) == x # Undefined /\ x[1] # 0

\* Number.prototype.toString / String(n) of an integer
NumToString(n) == Str(ToString(n))

RECURSIVE FlatMap(_, _)
FlatMap(f(_), s) == IF s = <<>> THEN <<>> ELSE f(Head(s)) \o FlatMap(f, Tail(s))

----------------------------------------------------------------------------
(* Object.entries: own enumerable string keys, integer-like keys first in  *)
(* ascending numeric order, then the other keys in insertion order.  A     *)
(* JavaScript object is modelled as the sequence of its entries            *)
(* [key, value] in insertion order, keys distinct.                         *)

IsArrayIndex(k) == \E n \in 0..MaxIndexKey : ToString(n) = k

IndexOfKey(k) == CHOOSE n \in 0..MaxIndexKey : ToString(n) = k

RECURSIVE SortedIndexEntries(_, _)
SortedIndexEntries(obj, from) ==
    LET cands == {i \in 1..Len(obj) : IsArrayIndex(obj[i].key) /\ IndexOfKey(obj[i].key) >= from}
    IN  IF cands = {} THEN <<>>
        ELSE LET m == CHOOSE i \in cands : \A j \in cands : IndexOfKey(obj[i].key) <= IndexOfKey(obj[j].key)
             IN  <<obj[m]>> \o SortedIndexEntries(obj, IndexOfKey(obj[m].key) + 1)

\* the entries in insertion order whatever the keys
ObjectEntriesInsertionOrder(obj) == obj

ObjectEntries(obj) ==
    SortedIndexEntries(obj, 0) \o SelectSeq(obj, LAMBDA e : ~IsArrayIndex(e.key))

----------------------------------------------------------------------------
(* _joinArgumentsRecord(option, separator, scale) *)

JoinEntryStr(separator, e) == Str(e.key) \o Str(separator) \o Str(e.value)

JoinEntryNum(separator, e) == Str(e.key) \o Str(separator) \o NumToString(e.value)

_joinArgumentsRecord(option, separator, scale) ==
    LET pair(e) == <<Str(option), JoinEntryStr(separator, e)>>
    IN  FlatMap(pair, ObjectEntries(scale))

\* _joinArgumentsRecord passing over the entries whose value is falsy
JoinTruthyEntriesNum(option, separator, scale) ==
    LET pair(e) == <<Str(option), JoinEntryNum(separator, e)>>
    IN  FlatMap(pair, SelectSeq(ObjectEntries(scale), LAMBDA e : e.value # 0))

_joinArgumentsRecordNum(option, separator, scale) ==
    LET pair(e) == <<Str(option), JoinEntryNum(separator, e)>>
    IN  FlatMap(pair, ObjectEntries(scale))

----------------------------------------------------------------------------
(* Paths.  A path string is modelled as [abs, segs]: whether it starts     *)
(* with "/" and its "/"-separated segments, each segment a string.         *)

Dot == Str(".")

DotDot == Str("..")

RECURSIVE NormalizeSegs(_, _, _)
NormalizeSegs(abs, segs, acc) ==
    IF segs = <<>> THEN acc
    ELSE LET s == Head(segs)
             rest == Tail(segs)
         IN  IF s = Dot \/ s = Str("") \/ s = <<>> THEN NormalizeSegs(abs, rest, acc)
             ELSE IF s = DotDot
                  THEN IF acc # <<>> /\ acc[Len(acc)] # DotDot
                       THEN NormalizeSegs(abs, rest, SubSeq(acc, 1, Len(acc) - 1))
                       ELSE IF abs THEN NormalizeSegs(abs, rest, acc)
                            ELSE NormalizeSegs(abs, rest, Append(acc, s))
                  ELSE NormalizeSegs(abs, rest, Append(acc, s))

RECURSIVE JoinSegs(_)
JoinSegs(segs) ==
    IF segs = <<>> THEN <<>>
    ELSE IF Len(segs) = 1 THEN segs[1]
    ELSE segs[1] \o Str("/") \o JoinSegs(Tail(segs))

\* path.normalize, rendered back to a string
PathString(abs, segs) ==
    LET n == NormalizeSegs(abs, segs, <<>>)
    IN  IF n = <<>> THEN (IF abs THEN Str("/") ELSE Dot)
        ELSE (IF abs THEN Str("/") ELSE <<>>) \o JoinSegs(n)

\* path.join(directory, name)
PathJoin(directory, name) == PathString(directory.abs, Append(directory.segs, name))

\* tempy.directory({ prefix: 'docker-compose' })
TempyDirectory == [abs |-> TRUE, segs |-> <<Str("tmp"), Str("docker-compose") \o Str("<unique>")>>]

----------------------------------------------------------------------------
(* Configuration sources.  An element of the source is a path string or a  *)
(* Compose object; a Compose object is modelled by its service names and   *)
(* by whether it holds a value js-yaml cannot dump.                        *)

StringElement(p) == [kind |-> "string", path |-> p, services |-> <<>>, dumpable |-> TRUE]

ComposeElement(svcs, ok) == [kind |-> "object", path |-> "", services |-> svcs, dumpable |-> ok]

RECURSIVE DumpServices(_)
DumpServices(svcs) ==
    IF svcs = <<>> THEN <<>>
    ELSE <<"  ", Head(svcs), ": {}\n">> \o DumpServices(Tail(svcs))

\* YAML.dump(file)
YAMLdump(file) == <<"version: '3.9'\n", "services:\n">> \o DumpServices(file.services)

YAMLdumpThrows(file) == ~file.dumpable

\* `docker-compose.${index}.yml`, index 0-based
TemporaryFileName(index) == Str("docker-compose.") \o NumToString(index) \o Str(".yml")

\* Array.isArray(this._file) ? this._file : [ this._file ]
NormalizedFiles(file) == IF file.isArray THEN file.elems ELSE <<file.elems[1]>>

\* path.join(this._directory, `docker-compose.${index}.yml`)
TemporaryYamlFilePath(directory, index) == PathJoin(directory, TemporaryFileName(index))

\* _getFile numbering only the structured elements' files from 1
GetFileOneBased(directory, file, index) ==
    IF file.kind = "string" THEN Str(file.path)
    ELSE TemporaryYamlFilePath(directory, index + 1)

\* the value _getFile resolves to
_getFile(directory, file, index) ==
    IF file.kind = "string" THEN Str(file.path)
    ELSE TemporaryYamlFilePath(directory, index)

\* files.flatMap(file => [ '--file', file ])
_getFilesArguments(paths) ==
    LET pair(p) == <<Str("--file"), p>>
    IN  FlatMap(pair, paths)

\* _getGlobalArguments testing the project name for undefined, not for truthiness
GlobalArgumentsIfDefined(projectName, paths) ==
    (IF projectName # Undefined THEN <<Str("--project-name"), Str(projectName[1])>> ELSE <<>>)
        \o _getFilesArguments(paths)

\* [ ...(projectName ? [ '--project-name', projectName ] : []), ...filesArguments ]
_getGlobalArguments(projectName, paths) ==
    (IF TruthyStr(projectName) THEN <<Str("--project-name"), Str(projectName[1])>> ELSE <<>>)
        \o _getFilesArguments(paths)

----------------------------------------------------------------------------
(* Subcommand argument arrays, as each method passes them to command().    *)

BoolFlag(x, name) == IF TruthyBool(x) THEN <<Str(name)>> ELSE <<>>

\* ...(x ? [ `${prefix}${x}` ] : [])
InlineStrFlag(x, prefix) == IF TruthyStr(x) THEN <<Str(prefix) \o Str(x[1])>> ELSE <<>>

\* ...(x ? [ name, x ] : [])
PairStrFlag(x, name) == IF TruthyStr(x) THEN <<Str(name), Str(x[1])>> ELSE <<>>

\* list.map(service => `${prefix}${service}`)
InlineListFlags(list, prefix) ==
    LET one(service) == <<Str(prefix) \o Str(service)>>
    IN  FlatMap(one, list)

\* a destructured field with a default value
OrDefault(x, default) == IF x = Undefined THEN default ELSE x[1]

UpEmpty ==
    [abortOnContainerExit |-> Undefined, alwaysRecreateDeps |-> Undefined, attach |-> Undefined,
     attachDependencies |-> Undefined, build |-> Undefined, detach |-> Undefined,
     exitCodeFrom |-> Undefined, forceRecreate |-> Undefined, noAttach |-> Undefined,
     noBuild |-> Undefined, noDeps |-> Undefined, noLogPrefix |-> Undefined,
     noRecreate |-> Undefined, noStart |-> Undefined, pull |-> Undefined,
     quietPull |-> Undefined, removeOrphans |-> Undefined, renewAnonVolumes |-> Undefined,
     scale |-> Undefined, timeout |-> Undefined, timestamps |-> Undefined, wait |-> Undefined]

RunEmpty ==
    [build |-> Undefined, detach |-> Undefined, entrypoint |-> Undefined, env |-> Undefined,
     interactive |-> Undefined, label |-> Undefined, name |-> Undefined, noTTY |-> Undefined,
     noDeps |-> Undefined, publish |-> Undefined, quietPull |-> Undefined,
     removeOrphans |-> Undefined, rm |-> Undefined, servicePorts |-> Undefined,
     useAliases |-> Undefined, user |-> Undefined, volume |-> Undefined, workdir |-> Undefined]

RmEmpty == [stop |-> Undefined, force |-> Undefined, volumes |-> Undefined]

DownEmpty == [removeOrphans |-> Undefined, rmi |-> Undefined, timeout |-> Undefined, volumes |-> Undefined]

\* up with detach left undefined when not given
UpDetachAsGiven(o) == TruthyBool(o.detach)

\* up: detach = true
UpDetach(o) == OrDefault(o.detach, TRUE)

UpTimeoutFlag(timeout) ==
    IF TruthyNum(timeout) THEN <<Str("--timeout=") \o NumToString(timeout[1])>> ELSE <<>>

UpArgs(o) ==
    <<Str("up")>>
    \o BoolFlag(o.abortOnContainerExit, "--abort-on-container-exit")
    \o BoolFlag(o.alwaysRecreateDeps, "--always-recreate-deps")
    \o InlineListFlags(OrDefault(o.attach, <<>>), "--attach=")
    \o BoolFlag(o.attachDependencies, "--attach-dependencies")
    \o BoolFlag(o.build, "--build")
    \o (IF UpDetach(o) THEN <<Str("--detach")>> ELSE <<>>)
    \o InlineStrFlag(o.exitCodeFrom, "--exit-code-from=")
    \o BoolFlag(o.forceRecreate, "--force-recreate")
    \o InlineListFlags(OrDefault(o.noAttach, <<>>), "--no-attach=")
    \o BoolFlag(o.noBuild, "--no-build")
    \o BoolFlag(o.noDeps, "--no-deps")
    \o BoolFlag(o.noLogPrefix, "--no-log-prefix")
    \o BoolFlag(o.noRecreate, "--no-recreate")
    \o BoolFlag(o.noStart, "--no-start")
    \o InlineStrFlag(o.pull, "--pull=")
    \o BoolFlag(o.quietPull, "--quiet-pull")
    \o BoolFlag(o.removeOrphans, "--remove-orphans")
    \o BoolFlag(o.renewAnonVolumes, "--renew-anon-volumes")
    \o _joinArgumentsRecordNum("--scale", "=", OrDefault(o.scale, <<>>))
    \o UpTimeoutFlag(o.timeout)
    \o BoolFlag(o.timestamps, "--timestamps")
    \o BoolFlag(o.wait, "--wait")

\* run: detach = true
RunDetach(o) == OrDefault(o.detach, TRUE)

RunFlags(o) ==
    BoolFlag(o.build, "--build")
    \o (IF RunDetach(o) THEN <<Str("--detach")>> ELSE <<>>)
    \o PairStrFlag(o.entrypoint, "--entrypoint")
    \o _joinArgumentsRecord("--env", "=", OrDefault(o.env, <<>>))
    \o BoolFlag(o.interactive, "--interactive")
    \o _joinArgumentsRecord("--label", "=", OrDefault(o.label, <<>>))
    \o PairStrFlag(o.name, "--name")
    \o BoolFlag(o.noTTY, "--no-TTY")
    \o BoolFlag(o.noDeps, "--no-deps")
    \o _joinArgumentsRecord("--publish", ":", OrDefault(o.publish, <<>>))
    \o BoolFlag(o.quietPull, "--quiet-pull")
    \o BoolFlag(o.removeOrphans, "--remove-orphans")
    \o BoolFlag(o.rm, "--rm")
    \o BoolFlag(o.servicePorts, "--service-ports")
    \o BoolFlag(o.useAliases, "--use-aliases")
    \o PairStrFlag(o.user, "--user")
    \o _joinArgumentsRecord("--volume", ":", OrDefault(o.volume, <<>>))
    \o PairStrFlag(o.workdir, "--workdir")

RECURSIVE StrList(_)
StrList(list) == IF list = <<>> THEN <<>> ELSE <<Str(Head(list))>> \o StrList(Tail(list))

\* service, ...(command ? [ command ] : []), ...args
RunPositionals(service, command, args) ==
    <<Str(service)>> \o (IF TruthyStr(command) THEN <<Str(command[1])>> ELSE <<>>) \o StrList(args)

RunArgs(service, command, args, o) ==
    <<Str("run")>> \o RunFlags(o) \o RunPositionals(service, command, args)

RmArgs(o) ==
    <<Str("rm")>>
    \o BoolFlag(o.stop, "--stop")
    \o BoolFlag(o.force, "--force")
    \o BoolFlag(o.volumes, "--volumes")

\* down rendering the timeout as up does, in one joined token
DownTimeoutJoined(timeout) ==
    IF TruthyNum(timeout) THEN <<Str("--timeout=") \o NumToString(timeout[1])>> ELSE <<>>

DownTimeoutFlag(timeout) ==
    IF TruthyNum(timeout) THEN <<Str("--timeout"), NumToString(timeout[1])>> ELSE <<>>

DownArgs(o) ==
    <<Str("down")>>
    \o BoolFlag(o.removeOrphans, "--remove-orphans")
    \o PairStrFlag(o.rmi, "--rmi")
    \o DownTimeoutFlag(o.timeout)
    \o PairStrFlag(o.volumes, "--volumes")

----------------------------------------------------------------------------
(* Errors, results, promises *)

NoError == [source |-> "none", index |-> 0, code |-> ""]

\* the exception YAML.dump throws for element index
DumpError(index) == [source |-> "dump", index |-> index, code |-> "YAMLException"]

\* the rejection of fs.writeFile for element index
WriteError(index, code) == [source |-> "write", index |-> index, code |-> code]

\* the rejection of an awaited child process
ProcessError(handle) == [source |-> "process", index |-> handle, code |-> "ExecaError"]

Pending == [state |-> "pending", value |-> <<>>, error |-> NoError]

Fulfilled(v) == [state |-> "fulfilled", value |-> v, error |-> NoError]

Rejected(e) == [state |-> "rejected", value |-> <<>>, error |-> e]

NoResult == [kind |-> "none", handle |-> 0, error |-> NoError]

\* { childProcess }
HandleResult(h) == [kind |-> "handle", handle |-> h, error |-> NoError]

\* Promise<void>
VoidResult == [kind |-> "void", handle |-> 0, error |-> NoError]

Thrown(e) == [kind |-> "error", handle |-> 0, error |-> e]

\* the arguments a public method was called with
Inputs(service, command, args, options) ==
    [service |-> service, command |-> command, args |-> args, options |-> options]

NoInputs == Inputs("", Undefined, <<>>, Undefined)

NoCall ==
    [n |-> 0, method |-> "none", inputs |-> NoInputs, args |-> <<>>, awaits |-> FALSE,
     promises |-> <<>>, all |-> Pending, argv |-> <<>>, handle |-> 0]

----------------------------------------------------------------------------
(* _getFile, first part: up to the await of fs.writeFile.  A string        *)
(* resolves at once, an object is dumped (which may throw) and its write   *)
(* is started.                                                             *)

StartGetFile(file, index) ==
    IF file.kind = "string" THEN Fulfilled(_getFile(_directory, file, index))
    ELSE IF YAMLdumpThrows(file) THEN Rejected(DumpError(index))
    ELSE Pending

\* the fs.writeFile calls _getFiles starts: one per dumpable object element
StartedWrites(n, fileList) ==
    {[n |-> n, index |-> i - 1,
      path |-> _getFile(_directory, fileList[i], i - 1),
      content |-> YAMLdump(fileList[i])] :
        i \in {j \in 1..Len(fileList) : fileList[j].kind = "object" /\ ~YAMLdumpThrows(fileList[j])}}

\* Promise.allSettled in place of Promise.all: a rejection no longer rejects
PromiseAllSettled(old, promises) ==
    IF old.state # "pending" THEN old
    ELSE IF \A i \in 1..Len(promises) : promises[i].state # "pending"
         THEN Fulfilled([i \in 1..Len(promises) |-> promises[i].value])
         ELSE Pending

\* Promise.all(promises): rejected with the first rejection, fulfilled when
\* every promise is; among promises rejected in the same tick the one
\* subscribed first (lowest index) settles it.
PromiseAll(old, promises) ==
    IF old.state # "pending" THEN old
    ELSE IF \E i \in 1..Len(promises) : promises[i].state = "rejected"
         THEN LET first == CHOOSE i \in 1..Len(promises) :
                               /\ promises[i].state = "rejected"
                               /\ \A j \in 1..Len(promises) : promises[j].state = "rejected" => i <= j
              IN  Rejected(promises[first].error)
         ELSE IF \A i \in 1..Len(promises) : promises[i].state = "fulfilled"
              THEN Fulfilled([i \in 1..Len(promises) |-> promises[i].value])
              ELSE Pending

\* fs.appendFile in place of fs.writeFile: a rewrite adds to what is there
AppendInto(fs, path, content) ==
    [p \in DOMAIN fs \cup {path} |-> IF p = path
                                    THEN (IF p \in DOMAIN fs THEN fs[p] ELSE <<>>) \o content
                                    ELSE fs[p]]

WriteInto(fs, path, content) ==
    [p \in DOMAIN fs \cup {path} |-> IF p = path THEN content ELSE fs[p]]

----------------------------------------------------------------------------
(* The public methods.  Each builds its argument array and enters          *)
(* command(), which starts resolving the global arguments.                 *)

CanCall == pc \in {"idle", "returned", "failed"} /\ callsLeft > 0

EnterCommand(method, inputs, args, awaits) ==
    LET fileList == NormalizedFiles(_file)
        n == call.n + 1
        promises == [i \in 1..Len(fileList) |-> StartGetFile(fileList[i], i - 1)]
    IN  /\ CanCall
        /\ call' = [n |-> n, method |-> method, inputs |-> inputs, args |-> args, awaits |-> awaits,
                    promises |-> promises, all |-> PromiseAll(Pending, promises),
                    argv |-> <<>>, handle |-> 0]
        /\ pendingWrites' = pendingWrites \cup StartedWrites(n, fileList)
        /\ pc' = "resolving"
        /\ result' = NoResult
        /\ callsLeft' = callsLeft - 1
        /\ UNCHANGED <<_file, _directory, _projectName, files, procs>>

\* up awaiting whatever detach is
UpAwaitsAlways(o) == TRUE

\* if (detach) { await childProcess; }
UpAwaits(o) == UpDetach(o)

\* run awaiting only when detached, as up does
RunAwaitsIfDetach(o) == RunDetach(o)

\* await childProcess;
RunAwaits(o) == TRUE

RmAwaits(o) == TRUE

DownAwaits(o) == TRUE

Up(optionsArg) ==
    LET o == OrDefault(optionsArg, UpEmpty)
    IN  EnterCommand("up", Inputs("", Undefined, <<>>, optionsArg), UpArgs(o), UpAwaits(o))

Run(service, command, args, optionsArg) ==
    LET o == OrDefault(optionsArg, RunEmpty)
    IN  EnterCommand("run", Inputs(service, command, args, optionsArg),
                     RunArgs(service, command, args, o), RunAwaits(o))

Rm(optionsArg) ==
    LET o == OrDefault(optionsArg, RmEmpty)
    IN  EnterCommand("rm", Inputs("", Undefined, <<>>, optionsArg), RmArgs(o), RmAwaits(o))

Down(optionsArg) ==
    LET o == OrDefault(optionsArg, DownEmpty)
    IN  EnterCommand("down", Inputs("", Undefined, <<>>, optionsArg), DownArgs(o), DownAwaits(o))

Command(args) == EnterCommand("command", Inputs("", Undefined, args, Undefined), StrList(args), FALSE)

----------------------------------------------------------------------------
(* fs.writeFile completes.  code "" is success; "EACCES" fails before the  *)
(* file is touched; "ENOSPC" fails after the file was opened for writing,  *)
(* leaving it truncated.                                                   *)

WriteCodes == {"", "EACCES", "ENOSPC"}

WriteFileDone(w, code) ==
    LET mine == w.n = call.n
        settled == IF code = "" THEN Fulfilled(w.path) ELSE Rejected(WriteError(w.index, code))
        promises == [call.promises EXCEPT ![w.index + 1] = settled]
    IN  /\ w \in pendingWrites
        /\ pendingWrites' = pendingWrites \ {w}
        /\ files' = IF code = "" THEN WriteInto(files, w.path, w.content)
                    ELSE IF code = "ENOSPC" THEN WriteInto(files, w.path, <<>>)
                    ELSE files
        /\ call' = IF mine
                   THEN [call EXCEPT !.promises = promises, !.all = PromiseAll(call.all, promises)]
                   ELSE call
        /\ UNCHANGED <<_file, _directory, _projectName, procs, pc, result, callsLeft>>

\* await this._getGlobalArguments() throws: command() rejects, and so does
\* the method awaiting it
ResolveFailed ==
    /\ pc = "resolving"
    /\ call.all.state = "rejected"
    /\ pc' = "failed"
    /\ result' = Thrown(call.all.error)
    /\ UNCHANGED <<_file, _directory, _projectName, files, pendingWrites, procs, call, callsLeft>>

\* a child process kept by the session and handed out again
ExecaReused(ps) == IF ps = <<>> THEN 1 ELSE Len(ps)

\* the handle execa returns: a new child process
Execa(ps) == Len(ps) + 1

\* the subcommand's array spread before the global arguments
CommandArgvArgsFirst(globalArguments, args) == args \o globalArguments

\* [ ...(await this._getGlobalArguments()), ...args ]
CommandArgv(globalArguments, args) == globalArguments \o args

\* what the method gives back when it does not throw
ReturnValue(method, handle) ==
    IF method \in {"up", "command"} THEN HandleResult(handle) ELSE VoidResult

\* the global arguments are resolved: _execa spawns the process, command()
\* returns { childProcess }, and the method either awaits it or returns
Spawn ==
    /\ pc = "resolving"
    /\ call.all.state = "fulfilled"
    /\ LET h == Execa(procs)
       IN  /\ procs' = Append(procs, [status |-> "running", n |-> call.n, method |-> call.method])
           /\ call' = [call EXCEPT !.argv = CommandArgv(_getGlobalArguments(_projectName, call.all.value), call.args),
                                   !.handle = h]
           /\ IF call.awaits
              THEN pc' = "awaiting" /\ result' = NoResult
              ELSE pc' = "returned" /\ result' = ReturnValue(call.method, h)
    /\ UNCHANGED <<_file, _directory, _projectName, files, pendingWrites, callsLeft>>

\* a child process ends, with exit code 0 or not
ProcessExit(h, ok) ==
    /\ h \in DOMAIN procs
    /\ procs[h].status = "running"
    /\ procs' = [procs EXCEPT ![h].status = IF ok THEN "exited" ELSE "failed"]
    /\ UNCHANGED <<_file, _directory, _projectName, files, pendingWrites, pc, call, result, callsLeft>>

\* await childProcess
AwaitChildProcess ==
    /\ pc = "awaiting"
    /\ procs[call.handle].status # "running"
    /\ IF procs[call.handle].status = "exited"
       THEN pc' = "returned" /\ result' = ReturnValue(call.method, call.handle)
       ELSE pc' = "failed" /\ result' = Thrown(ProcessError(call.handle))
    /\ UNCHANGED <<_file, _directory, _projectName, files, pendingWrites, procs, call, callsLeft>>

----------------------------------------------------------------------------
(* Inputs *)

RECURSIVE SeqsUpTo(_, _)
SeqsUpTo(S, n) ==
    IF n = 0 THEN {<<>>}
    ELSE LET shorter == SeqsUpTo(S, n - 1)
         IN  shorter \cup {Append(q, x) : q \in shorter, x \in S}

\* JavaScript objects with at most n entries: keys from Keys, distinct, in
\* insertion order, values from Vals
ObjectsUpTo(Keys, Vals, n) ==
    {q \in SeqsUpTo([key : Keys, value : Vals], n) :
        \A i, j \in 1..Len(q) : q[i].key = q[j].key => i = j}

WebOnly == ComposeElement(<<"web">>, TRUE)

WebAndDb == ComposeElement(<<"web", "db">>, TRUE)

Undumpable == ComposeElement(<<"fn">>, FALSE)

Elements == {StringElement("a.yml"), WebOnly, WebAndDb, Undumpable}

\* file: Compose | string | Array<Compose | string>
FileSources ==
    {[isArray |-> TRUE, elems |-> q] : q \in SeqsUpTo(Elements, MaxFiles)}
    \cup {[isArray |-> FALSE, elems |-> <<e>>] : e \in Elements}

\* directory?: string
DirectoryArgs ==
    {Undefined,
     Some([abs |-> TRUE, segs |-> <<Str("work")>>]),
     Some([abs |-> FALSE, segs |-> <<Dot, Str("out")>>])}

\* projectName?: string
ProjectNames == {Undefined, Some(""), Some("proj")}

Constructor(file, directory, projectName) ==
    /\ _file = file
    /\ _directory = OrDefault(directory, TempyDirectory)
    /\ _projectName = projectName

InitRest ==
    /\ files = <<>>
    /\ pendingWrites = {}
    /\ procs = <<>>
    /\ pc = "idle"
    /\ call = NoCall
    /\ result = NoResult

\* a few sessions, for sequences of calls and for the option space
FewSessions ==
    {<<[isArray |-> TRUE, elems |-> <<WebOnly, StringElement("a.yml"), WebAndDb>>], Undefined, Some("proj")>>,
     <<[isArray |-> TRUE, elems |-> <<WebAndDb, Undumpable>>], Undefined, Undefined>>,
     <<[isArray |-> FALSE, elems |-> <<WebOnly>>], Some([abs |-> TRUE, segs |-> <<Str("work")>>]), Undefined>>,
     <<[isArray |-> FALSE, elems |-> <<StringElement("a.yml")>>], Undefined, Some("")>>}

\* sequences of calls on a few sessions
Init ==
    /\ \E s \in FewSessions : Constructor(s[1], s[2], s[3])
    /\ InitRest
    /\ callsLeft = MaxCalls

\* the first call on every session
InitSessions ==
    /\ \E file \in FileSources, directory \in DirectoryArgs, projectName \in ProjectNames :
           Constructor(file, directory, projectName)
    /\ InitRest
    /\ callsLeft = 1

\* one call on a few sessions
InitOptions ==
    /\ \E s \in FewSessions : Constructor(s[1], s[2], s[3])
    /\ InitRest
    /\ callsLeft = 1

SetField(o, f, v) == [g \in DOMAIN o |-> IF g = f THEN v ELSE o[g]]

BasicUpOptions == {Undefined, Some(UpEmpty), Some(SetField(UpEmpty, "detach", Some(FALSE)))}

BasicRunOptions == {Undefined, Some(SetField(RunEmpty, "detach", Some(FALSE)))}

Steps ==
    \/ \E w \in pendingWrites, code \in WriteCodes : WriteFileDone(w, code)
    \/ ResolveFailed
    \/ Spawn
    \/ \E h \in DOMAIN procs, ok \in BOOLEAN : ProcessExit(h, ok)
    \/ AwaitChildProcess

Next ==
    \/ CanCall /\ \E o \in BasicUpOptions : Up(o)
    \/ CanCall /\ \E o \in BasicRunOptions : Run("svc", Undefined, <<>>, o)
    \/ Rm(Undefined)
    \/ Down(Undefined)
    \/ Command(<<"ps">>)
    \/ Steps

Spec == Init /\ [][Next]_vars

SpecSessions == InitSessions /\ [][Next]_vars

----------------------------------------------------------------------------
(* The option space *)

Services == {"web", "db"}

UpBooleanFields ==
    {"abortOnContainerExit", "alwaysRecreateDeps", "attachDependencies", "build", "detach",
     "forceRecreate", "noBuild", "noDeps", "noLogPrefix", "noRecreate", "noStart", "quietPull",
     "removeOrphans", "renewAnonVolumes", "timestamps", "wait"}

Timeouts == {Some(0), Some(5), Some(10), Some(-1)}

ScaleObjects == ObjectsUpTo(Services \cup {"3"}, {0, 2}, MaxEntries)

UpEverything ==
    [abortOnContainerExit |-> Some(TRUE), alwaysRecreateDeps |-> Some(TRUE), attach |-> Some(<<"web">>),
     attachDependencies |-> Some(TRUE), build |-> Some(TRUE), detach |-> Some(TRUE),
     exitCodeFrom |-> Some("web"), forceRecreate |-> Some(TRUE), noAttach |-> Some(<<"db">>),
     noBuild |-> Some(TRUE), noDeps |-> Some(TRUE), noLogPrefix |-> Some(TRUE),
     noRecreate |-> Some(TRUE), noStart |-> Some(TRUE), pull |-> Some("always"),
     quietPull |-> Some(TRUE), removeOrphans |-> Some(TRUE), renewAnonVolumes |-> Some(TRUE),
     scale |-> Some(<<[key |-> "web", value |-> 2]>>), timeout |-> Some(5),
     timestamps |-> Some(TRUE), wait |-> Some(TRUE)]

\* up({ scale: { web: 0 }, timeout: 0 })
UpZeroes ==
    SetField(SetField(UpEmpty, "scale", Some(<<[key |-> "web", value |-> 0]>>)), "timeout", Some(0))

\* one field set, on top of the defaults and on top of detach: false
UpOneField(base) ==
    {SetField(base, f, Some(b)) : f \in UpBooleanFields, b \in BOOLEAN}
    \cup {SetField(base, f, Some(l)) : f \in {"attach", "noAttach"}, l \in SeqsUpTo(Services, MaxList)}
    \cup {SetField(base, "exitCodeFrom", Some(x)) : x \in {"", "web"}}
    \cup {SetField(base, "pull", Some(x)) : x \in {"always", "missing", "never"}}
    \cup {SetField(base, "scale", Some(x)) : x \in ScaleObjects}
    \cup {SetField(base, "timeout", x) : x \in Timeouts}

UpOptions ==
    {UpEmpty, UpEverything, SetField(UpEverything, "detach", Some(FALSE)), UpZeroes}
    \cup UpOneField(UpEmpty)
    \cup UpOneField(SetField(UpEmpty, "detach", Some(FALSE)))

RunBooleanFields ==
    {"build", "detach", "interactive", "noTTY", "noDeps", "quietPull", "removeOrphans", "rm",
     "servicePorts", "useAliases"}

RunStringFields == {"entrypoint", "name", "user", "workdir"}

RunObjectFields == {"env", "label", "publish", "volume"}

StringObjects == ObjectsUpTo({"A", "B", "2", "10"}, {"1", "2"}, MaxEntries)

RunEverything ==
    [build |-> Some(TRUE), detach |-> Some(FALSE), entrypoint |-> Some("sh"),
     env |-> Some(<<[key |-> "A", value |-> "1"]>>), interactive |-> Some(TRUE),
     label |-> Some(<<[key |-> "B", value |-> "2"]>>), name |-> Some("box"), noTTY |-> Some(TRUE),
     noDeps |-> Some(TRUE), publish |-> Some(<<[key |-> "10", value |-> "2"]>>),
     quietPull |-> Some(TRUE), removeOrphans |-> Some(TRUE), rm |-> Some(TRUE),
     servicePorts |-> Some(TRUE), useAliases |-> Some(TRUE), user |-> Some("root"),
     volume |-> Some(<<[key |-> "A", value |-> "2"]>>), workdir |-> Some("src")]

RunOptions ==
    {RunEmpty, RunEverything}
    \cup {SetField(RunEmpty, f, Some(b)) : f \in RunBooleanFields, b \in BOOLEAN}
    \cup {SetField(RunEmpty, f, Some(x)) : f \in RunStringFields, x \in {"", "x"}}
    \cup {SetField(RunEmpty, f, Some(x)) : f \in RunObjectFields, x \in StringObjects}

RunCommands == {Undefined, Some(""), Some("sh")}

RunTrailingArgs == SeqsUpTo({"--flag", "ls"}, MaxList)

RmOptions == [stop : {Undefined, Some(TRUE)}, force : {Undefined, Some(TRUE)}, volumes : {Undefined, Some(FALSE), Some(TRUE)}]

DownOptions ==
    [removeOrphans : {Undefined, Some(TRUE)}, rmi : {Undefined, Some("local"), Some("all")},
     timeout : {Undefined} \cup Timeouts, volumes : {Undefined, Some(""), Some("data")}]

CommandArgs == SeqsUpTo({"ps", "--all"}, MaxList)

OrUndefined(S) == {Undefined} \cup {Some(o) : o \in S}

NextOptions ==
    \/ CanCall /\ \E o \in OrUndefined(UpOptions) : Up(o)
    \/ CanCall /\ \E command \in RunCommands, args \in RunTrailingArgs, o \in {Undefined, Some(RunEverything)} :
           Run("svc", command, args, o)
    \/ CanCall /\ \E command \in {Undefined, Some("sh")}, o \in OrUndefined(RunOptions) :
           Run("svc", command, <<"--flag">>, o)
    \/ CanCall /\ \E o \in OrUndefined(RmOptions) : Rm(o)
    \/ CanCall /\ \E o \in OrUndefined(DownOptions) : Down(o)
    \/ CanCall /\ \E args \in CommandArgs : Command(args)
    \/ Steps

SpecOptions == InitOptions /\ [][NextOptions]_vars

----------------------------------------------------------------------------
(* Properties *)

FileFlag == Str("--file")

ProjectNameFlag == Str("--project-name")

\* the process of the current call has been spawned
Spawned == call.handle # 0

\* the part of the spawned argument vector before the subcommand's array
GlobalArgs == SubSeq(call.argv, 1, Len(call.argv) - Len(call.args))

Tokens(v) == {v[i] : i \in 1..Len(v)}

\* <workingDirectory>/<name>
InWorkingDirectory(name) ==
    LET d == PathString(_directory.abs, _directory.segs)
    IN  IF d = Dot THEN name
        ELSE IF d = Str("/") THEN d \o name
        ELSE d \o Str("/") \o name

\* the path claimed for the element at 1-based position k of the source list
ClaimedFilePath(k) ==
    IF _file.elems[k].kind = "string" THEN Str(_file.elems[k].path)
    ELSE InWorkingDirectory(<<"docker-compose.", ToString(k - 1), ".yml">>)

ProjectPairLeads ==
    LET G == GlobalArgs
    IN  /\ _projectName # Undefined
        /\ Len(G) >= 2
        /\ G[1] = ProjectNameFlag
        /\ G[2] = Str(_projectName[1])
        /\ Len(G) > 2 => G[3] = FileFlag

\* C3 as stated: the pair `--project-name <name>` leads the argument vector
\* if and only if a project name was configured, the empty string included,
\* and without a configured name the flag does not appear.
C3_AsStated ==
    Spawned =>
        /\ ProjectPairLeads <=> _projectName # Undefined
        /\ _projectName = Undefined => ProjectNameFlag \notin Tokens(GlobalArgs)

\* C3, amended: the pair `--project-name <name>` leads the argument vector,
\* directly before the first `--file` pair, if and only if a non-empty project
\* name was configured; with no project name or with the empty string the
\* flag does not appear among the global arguments.
C3_ProjectName ==
    Spawned =>
        LET named == _projectName # Undefined /\ _projectName[1] # ""
        IN  /\ ProjectPairLeads <=> named
            /\ ~named => ProjectNameFlag \notin Tokens(GlobalArgs)

\* a configured, non-empty name before two file pairs
C3_Witness ==
    /\ Spawned
    /\ _projectName = Some("proj")
    /\ Len(_file.elems) = 2

\* some element of the current call failed to materialize
MaterializeFailed == \E i \in 1..Len(call.promises) : call.promises[i].state = "rejected"

\* C8: once an element of the source fails to materialize (YAML.dump throws
\* or fs.writeFile rejects), the call spawns no process and neither awaits
\* nor returns; when it ends it throws the error of a failed element as it
\* was raised; and no write is started again for an element already settled.
C8_MaterializeFailure ==
    (call.n > 0 /\ MaterializeFailed) =>
        /\ ~Spawned
        /\ \A h \in DOMAIN procs : procs[h].n # call.n
        /\ pc \in {"resolving", "failed"}
        /\ pc = "failed" =>
               /\ result.kind = "error"
               /\ \E i \in 1..Len(call.promises) :
                      /\ call.promises[i].state = "rejected"
                      /\ result.error = call.promises[i].error
                      /\ result.error.index = i - 1
                      /\ result.error.source \in {"dump", "write"}
        /\ \A w \in pendingWrites : w.n = call.n => call.promises[w.index + 1].state = "pending"

\* run fails with the write error of the second element of a list
C8_Witness ==
    /\ pc = "failed"
    /\ call.method = "run"
    /\ result.error = WriteError(1, "ENOSPC")
    /\ call.promises[1].state = "fulfilled"

\* v holds only global arguments: an optional project-name pair, then
\* `--file` pairs
GlobalShape(v) ==
    LET off == IF Len(v) >= 1 /\ v[1] = ProjectNameFlag THEN 2 ELSE 0
    IN  /\ Len(v) >= off
        /\ (Len(v) - off) % 2 = 0
        /\ \A i \in (off + 1)..Len(v) : ((i - off) % 2 = 1) <=> (v[i] = FileFlag)
        /\ \A i \in 2..Len(v) : v[i] # ProjectNameFlag

\* the first atom of every subcommand-specific flag token
SubcommandFlagHeads ==
    {"--abort-on-container-exit", "--always-recreate-deps", "--attach=", "--attach-dependencies",
     "--build", "--detach", "--exit-code-from=", "--force-recreate", "--no-attach=", "--no-build",
     "--no-deps", "--no-log-prefix", "--no-recreate", "--no-start", "--pull=", "--quiet-pull",
     "--remove-orphans", "--renew-anon-volumes", "--scale", "--timeout=", "--timeout", "--timestamps",
     "--wait", "--entrypoint", "--env", "--interactive", "--label", "--name", "--no-TTY",
     "--publish", "--rm", "--service-ports", "--use-aliases", "--user", "--volume", "--workdir",
     "--stop", "--force", "--volumes", "--rmi"}

\* the flags that take their value as the next token
ValueFlags(method) ==
    IF method = "up" THEN {"--scale"}
    ELSE IF method = "run"
         THEN {"--entrypoint", "--env", "--label", "--name", "--publish", "--user", "--volume", "--workdir"}
    ELSE IF method = "down" THEN {"--rmi", "--timeout", "--volumes"}
    ELSE {}

IsFlag(t) == t # <<>> /\ t[1] \in SubcommandFlagHeads

ListOfStrings(list) == [i \in 1..Len(list) |-> Str(list[i])]

\* the positional arguments of the current call, without and with the
\* inline command
PositionalsWithoutCommand == <<Str(call.inputs.service)>> \o ListOfStrings(call.inputs.args)

PositionalsWithCommand ==
    IF call.inputs.command = Undefined THEN PositionalsWithoutCommand
    ELSE <<Str(call.inputs.service), Str(call.inputs.command[1])>> \o ListOfStrings(call.inputs.args)

EndsWith(v, suffix) ==
    /\ Len(v) >= Len(suffix)
    /\ SubSeq(v, Len(v) - Len(suffix) + 1, Len(v)) = suffix

\* tokens k+1..last of v are flags of the method, or values of its value flags
FlagsOnly(v, k, last, method) ==
    \A i \in (k + 1)..last :
        \/ IsFlag(v[i])
        \/ i > k + 1 /\ v[i - 1] # <<>> /\ Len(v[i - 1]) = 1 /\ v[i - 1][1] \in ValueFlags(method)

\* C2: the spawned argument vector is the global flags (project-name pair,
\* then `--file` pairs), then the subcommand name, then the subcommand's
\* flags, then the positional arguments (run: service, inline command if
\* given, trailing args); no subcommand flag stands before the name and no
\* global flag after it.  For command the caller's array follows the global
\* flags.
C2_ArgumentOrder ==
    Spawned =>
        LET v == call.argv
        IN  IF call.method = "command"
            THEN /\ GlobalShape(GlobalArgs)
                 /\ v = GlobalArgs \o ListOfStrings(call.inputs.args)
            ELSE \E k \in 1..Len(v) :
                   /\ v[k] = Str(call.method)
                   /\ GlobalShape(SubSeq(v, 1, k - 1))
                   /\ \A i \in 1..(k - 1) : ~IsFlag(v[i])
                   /\ \A i \in (k + 1)..Len(v) : v[i] # FileFlag /\ v[i] # ProjectNameFlag
                   /\ IF call.method = "run"
                      THEN \E pos \in {PositionalsWithoutCommand, PositionalsWithCommand} :
                             /\ EndsWith(v, pos)
                             /\ k <= Len(v) - Len(pos)
                             /\ FlagsOnly(v, k, Len(v) - Len(pos), "run")
                      ELSE FlagsOnly(v, k, Len(v), call.method)

\* run with every option set, an inline command and a trailing argument,
\* on a session with a project name and three sources
C2_Witness ==
    /\ Spawned
    /\ call.method = "run"
    /\ call.inputs.options = Some(RunEverything)
    /\ call.inputs.command = Some("sh")
    /\ call.inputs.args = <<"--flag">>
    /\ _projectName = Some("proj")
    /\ Len(_file.elems) = 3

\* up was called with no options or with an empty options object
UpWithDefaults ==
    /\ call.method = "up"
    /\ \/ call.inputs.options = Undefined
       \/ call.inputs.options = Some(UpEmpty)

\* C4: up with no options, or with an empty options object, spawns the
\* global arguments followed by exactly `up --detach`, and has not returned
\* while the spawned process is still running.
C4_UpDefaults ==
    UpWithDefaults =>
        /\ Spawned =>
               /\ GlobalShape(GlobalArgs)
               /\ call.argv = GlobalArgs \o <<Str("up"), Str("--detach")>>
        /\ pc = "returned" => Spawned /\ procs[call.handle].status # "running"

\* up() has returned
C4_Witness ==
    /\ call.method = "up"
    /\ call.inputs.options = Undefined
    /\ pc = "returned"
    /\ procs[call.handle].status = "exited"

UpNotDetached ==
    /\ call.method = "up"
    /\ call.inputs.options # Undefined
    /\ call.inputs.options[1].detach = Some(FALSE)

\* C5: up with detach false never waits for the process: as soon as the
\* process is spawned the call has returned, with the handle of the process
\* this call spawned, and the argument vector holds no `--detach` token.
C5_UpNotDetached ==
    UpNotDetached =>
        /\ pc # "awaiting"
        /\ Spawned =>
               /\ pc = "returned"
               /\ result = HandleResult(call.handle)
               /\ procs[result.handle].n = call.n
               /\ Str("--detach") \notin Tokens(call.argv)

\* up({ detach: false }) has returned while its process is running
C5_Witness ==
    /\ UpNotDetached
    /\ pc = "returned"
    /\ procs[result.handle].status = "running"

\* C6: run, rm and down, whatever their options (detach false on run
\* included), have returned only once the spawned process has completed,
\* and wait while it runs; command has returned as soon as the process is
\* spawned and never waits.
C6_Blocking ==
    /\ call.method \in {"run", "rm", "down"} =>
           /\ pc = "returned" => Spawned /\ procs[call.handle].status = "exited"
           /\ pc = "failed" /\ Spawned => procs[call.handle].status = "failed"
           /\ Spawned /\ procs[call.handle].status = "running" => pc = "awaiting"
    /\ call.method = "command" =>
           /\ pc # "awaiting"
           /\ Spawned => pc = "returned"

\* run with detach false has returned, while the process of an earlier
\* command call is still running
C6_Witness ==
    /\ call.n = 2
    /\ call.method = "run"
    /\ call.inputs.options # Undefined
    /\ call.inputs.options[1].detach = Some(FALSE)
    /\ pc = "returned"
    /\ procs[1].method = "command"
    /\ procs[1].status = "running"

\* C7 as stated: each of up, run, rm, down and command returns a handle to
\* the process this call spawned.
C7_AsStated ==
    pc = "returned" =>
        /\ result.kind = "handle"
        /\ result.handle = call.handle
        /\ procs[call.handle].n = call.n

\* C7, amended: up and command return a handle to the process that this
\* call spawned, a new one per call (never the handle of an earlier call);
\* run, rm and down return no handle (they resolve to nothing once the
\* process has completed).
C7_Handles ==
    pc = "returned" =>
        IF call.method \in {"up", "command"}
        THEN /\ result.kind = "handle"
             /\ result.handle = call.handle
             /\ result.handle \in DOMAIN procs
             /\ procs[result.handle].n = call.n
             /\ \A h \in DOMAIN procs : procs[h].n = call.n => h = result.handle
        ELSE result = VoidResult

\* the second call on a session returns the second handle
C7_Witness ==
    /\ call.n = 2
    /\ call.method = "up"
    /\ pc = "returned"
    /\ result.handle = 2
    /\ procs[1].method = "command"

\* the tokens that directly follow each occurrence of flag in v, in order
RECURSIVE Followers(_, _)
Followers(v, flag) ==
    IF Len(v) < 2 THEN <<>>
    ELSE IF v[1] = flag THEN <<v[2]>> \o Followers(SubSeq(v, 3, Len(v)), flag)
    ELSE Followers(Tail(v), flag)

\* the map-valued options of the current call: flag, separator, the object
\* given (empty when not given), whether its values are numbers
MapOptions ==
    LET o == call.inputs.options[1]
        given(x) == IF x = Undefined THEN <<>> ELSE x[1]
    IN  IF call.inputs.options = Undefined THEN {}
        ELSE IF call.method = "up"
             THEN {[flag |-> "--scale", sep |-> "=", obj |-> given(o.scale), num |-> TRUE]}
        ELSE IF call.method = "run"
             THEN {[flag |-> "--env", sep |-> "=", obj |-> given(o.env), num |-> FALSE],
                   [flag |-> "--label", sep |-> "=", obj |-> given(o.label), num |-> FALSE],
                   [flag |-> "--publish", sep |-> ":", obj |-> given(o.publish), num |-> FALSE],
                   [flag |-> "--volume", sep |-> ":", obj |-> given(o.volume), num |-> FALSE]}
        ELSE {}

\* key<sep>value
ClaimedPair(m, e) == <<e.key, m.sep, IF m.num THEN ToString(e.value) ELSE e.value>>

\* the position of the service among the tokens of a run call
ServicePosition ==
    Len(call.argv) - Len(call.inputs.args)
        - (IF call.inputs.command # Undefined /\ call.inputs.command[1] # "" THEN 1 ELSE 0)

\* every pair of the flag stands before the positional arguments of run
PairsBeforePositionals(flag) ==
    call.method = "run" =>
        /\ call.argv[ServicePosition] = Str(call.inputs.service)
        /\ \A i \in 1..Len(call.argv) : call.argv[i] = Str(flag) => i + 1 < ServicePosition

\* C9 as stated: each map-valued option yields one `<flag> key<sep>value`
\* pair per entry, in the insertion order of the entries for every set of
\* keys, integer-like keys included.
C9_AsStated ==
    Spawned =>
        \A m \in MapOptions :
            /\ Followers(call.argv, Str(m.flag)) = [i \in 1..Len(m.obj) |-> ClaimedPair(m, m.obj[i])]
            /\ PairsBeforePositionals(m.flag)

\* entry j of obj is enumerated before entry i: integer-like keys come
\* first, in ascending numeric order, the other keys follow in insertion order
EntryPrecedes(obj, j, i) ==
    LET ji == IsArrayIndex(obj[j].key)
        ii == IsArrayIndex(obj[i].key)
    IN  \/ ji /\ ~ii
        \/ ji /\ ii /\ IndexOfKey(obj[j].key) < IndexOfKey(obj[i].key)
        \/ ~ji /\ ~ii /\ j < i

EntryRank(obj, i) == Cardinality({j \in 1..Len(obj) : EntryPrecedes(obj, j, i)}) + 1

\* C9, amended: each map-valued option (scale on up; env, label, publish,
\* volume on run) yields exactly one `<flag> key<sep>value` pair per entry,
\* with `=` for scale/env/label and `:` for publish/volume, in the order
\* Object.entries gives: entries with integer-like keys first, in ascending
\* numeric order, then the other entries in insertion order; for run the
\* pairs precede the positional arguments, and
\* run('svc', undefined, ['--flag'], {env: {A: '1', B: '2'}}) yields
\* `--env A=1 --env B=2` followed later by `svc --flag`.
C9_MapOptions ==
    Spawned =>
        /\ \A m \in MapOptions :
               LET F == Followers(call.argv, Str(m.flag))
               IN  /\ Len(F) = Len(m.obj)
                   /\ \A i \in 1..Len(m.obj) : F[EntryRank(m.obj, i)] = ClaimedPair(m, m.obj[i])
                   /\ PairsBeforePositionals(m.flag)
        /\ (/\ call.method = "run"
            /\ call.inputs = Inputs("svc", Undefined, <<"--flag">>,
                   Some(SetField(RunEmpty, "env", Some(<<[key |-> "A", value |-> "1"], [key |-> "B", value |-> "2"]>>)))))
           => call.argv = GlobalArgs \o <<Str("run"), Str("--detach"),
                                           Str("--env"), <<"A", "=", "1">>, Str("--env"), <<"B", "=", "2">>,
                                           Str("svc"), Str("--flag")>>

\* run publishes an integer-like key given after another key
C9_Witness ==
    /\ Spawned
    /\ call.method = "run"
    /\ call.inputs.options # Undefined
    /\ call.inputs.options[1].publish = Some(<<[key |-> "A", value |-> "1"], [key |-> "2", value |-> "2"]>>)
    /\ call.inputs.args = <<"--flag">>

\* the decimal string of the timeouts the calls use
ClaimedDecimal(t) ==
    CASE t = 5 -> "5"
      [] t = 10 -> "10"
      [] t = -1 -> "-1"
      [] OTHER -> "?"

DownWithTimeout ==
    /\ call.method = "down"
    /\ call.inputs.options # Undefined
    /\ call.inputs.options[1].timeout # Undefined
    /\ call.inputs.options[1].timeout[1] # 0

\* C10: down with a non-zero numeric timeout t emits the two tokens
\* `--timeout`, `<t in decimal>`, never the joined `--timeout=<t>`, after
\* `--remove-orphans` and after the `--rmi <mode>` pair when those are set;
\* down({timeout: 5}) yields the global arguments followed by exactly
\* `down --timeout 5`.
C10_DownTimeout ==
    (Spawned /\ DownWithTimeout) =>
        LET v == call.argv
            o == call.inputs.options[1]
            t == o.timeout[1]
        IN  /\ \E i \in 1..(Len(v) - 1) :
                   /\ v[i] = Str("--timeout")
                   /\ v[i + 1] = Str(ClaimedDecimal(t))
                   /\ \A j \in 1..Len(v) : v[j] = Str("--timeout") => j = i
                   /\ \A j \in 1..Len(v) : v[j] = Str("--remove-orphans") => j < i
                   /\ \A j \in 1..Len(v) : v[j] = Str("--rmi") => j + 1 < i
            /\ \A j \in 1..Len(v) : v[j] # <<>> => v[j][1] # "--timeout="
            /\ TruthyBool(o.removeOrphans) => Str("--remove-orphans") \in Tokens(v)
            /\ o.rmi # Undefined /\ o.rmi[1] # "" => Str("--rmi") \in Tokens(v)
            /\ o = SetField(DownEmpty, "timeout", Some(5))
                   => v = GlobalArgs \o <<Str("down"), Str("--timeout"), Str("5")>>

\* down({removeOrphans: true, rmi: 'all', timeout: 10})
C10_Witness ==
    /\ Spawned
    /\ DownWithTimeout
    /\ call.inputs.options[1].timeout = Some(10)
    /\ call.inputs.options[1].removeOrphans = Some(TRUE)
    /\ call.inputs.options[1].rmi = Some("all")

\* no token of v is a timeout flag, joined (`--timeout=<t>`) or apart
NoTimeoutToken(v) ==
    \A j \in 1..Len(v) : v[j] # <<>> => v[j][1] \notin {"--timeout=", "--timeout"}

\* the timeout given to up or down, <<>> when none was given
GivenTimeout ==
    IF call.method \in {"up", "down"} /\ call.inputs.options # Undefined
    THEN call.inputs.options[1].timeout
    ELSE Undefined

\* the scale map given to up, empty when none was given
GivenScale ==
    IF call.method = "up" /\ call.inputs.options # Undefined /\ call.inputs.options[1].scale # Undefined
    THEN call.inputs.options[1].scale[1]
    ELSE <<>>

\* C11: numeric zero is handled asymmetrically.  Every entry of up's scale
\* map is emitted as `--scale key=value` whatever its value, an entry with
\* value 0 as `--scale key=0`: there are as many `--scale` tokens as entries,
\* and up({scale: {web: 0}}) spawns exactly `up --detach --scale web=0`.  A
\* timeout of 0 on up or on down is treated as unset: the argument vector
\* holds no timeout token and no token `0`.
C11_NumericZero ==
    Spawned =>
        LET v == call.argv
            F == Followers(v, Str("--scale"))
        IN  /\ call.method = "up" =>
                   /\ Len(F) = Len(GivenScale)
                   /\ Cardinality({i \in 1..Len(v) : v[i] = Str("--scale")}) = Len(GivenScale)
                   /\ \A i \in 1..Len(GivenScale) :
                          GivenScale[i].value = 0 =>
                              \E k \in 1..Len(F) : F[k] = <<GivenScale[i].key, "=", "0">>
            /\ (call.method = "up" /\ call.inputs.options = Some(SetField(UpEmpty, "scale", Some(<<[key |-> "web", value |-> 0]>>))))
                   => v = GlobalArgs \o <<Str("up"), Str("--detach"), Str("--scale"), <<"web", "=", "0">>>>
            /\ GivenTimeout = Some(0) =>
                   /\ NoTimeoutToken(v)
                   /\ Str("0") \notin Tokens(v)

\* up({ scale: { web: 0 }, timeout: 0 }) has spawned its process
C11_Witness ==
    /\ Spawned
    /\ call.method = "up"
    /\ call.inputs.options = Some(UpZeroes)
    /\ Str("--scale") \in Tokens(call.argv)

\* the 1-based positions of the source list that hold a structured
\* configuration
StructuredPositions == {k \in 1..Len(_file.elems) : _file.elems[k].kind = "object"}

\* docker-compose.<i>.yml in the working directory, for every structured
\* position
ClaimedFiles == {ClaimedFilePath(k) : k \in StructuredPositions}

\* the structured position a claimed path belongs to
PositionOf(p) == CHOOSE k \in StructuredPositions : ClaimedFilePath(k) = p

\* the file at p holds the serialization of its element
HoldsSerialization(p) == files[p] = YAMLdump(_file.elems[PositionOf(p)])

\* the file at p was left truncated by a write that failed partway
LeftTruncated(p) == files[p] = <<>>

\* the current call has ended, by returning or by throwing
CallEnded == call.n > 0 /\ pc \in {"returned", "failed"}

\* C12 as stated: after any sequence of calls the files written are exactly
\* docker-compose.<i>.yml for the structured positions i, each containing
\* the serialization of element i.
C12_AsStated ==
    CallEnded =>
        /\ DOMAIN files = ClaimedFiles
        /\ \A p \in DOMAIN files : HoldsSerialization(p)

\* a write to the file at p is in progress
BeingWritten(p) == \E w \in pendingWrites : w.path = p

\* the files written and what they hold, at every moment
WrittenFilesInv ==
    /\ DOMAIN files \subseteq ClaimedFiles
    /\ \A p \in DOMAIN files : ~BeingWritten(p) => (HoldsSerialization(p) \/ LeftTruncated(p))
    /\ \A k \in StructuredPositions : YAMLdumpThrows(_file.elems[k]) => ClaimedFilePath(k) \notin DOMAIN files
    /\ Spawned => DOMAIN files = ClaimedFiles
    /\ (Spawned /\ call.n = 1) => \A p \in DOMAIN files : HoldsSerialization(p)

\* a step deletes no file, and leaves a file that holds its serialization
\* as it is unless a write to it fails partway
FilesStep ==
    /\ DOMAIN files \subseteq DOMAIN files'
    /\ \A p \in DOMAIN files :
           HoldsSerialization(p) => (files'[p] = files[p] \/ files'[p] = <<>>)

\* C12, amended: during and after any sequence of calls on one unchanged
\* session and working directory, every file written is docker-compose.<i>.yml
\* in the working directory for a position i that holds a structured
\* configuration (none for a string element, no second file for an element),
\* and, while no write to it is in progress, holds the serialization of
\* element i unless a write to it failed partway and left it truncated; an
\* element whose serialization throws has no file; once a call has spawned
\* its process every structured position has its file, and after a first
\* call that spawned each file holds its serialization; no step deletes a
\* file, and a rewrite that succeeds leaves a file's content identical.
C12_WrittenFiles == []WrittenFilesInv /\ [][FilesStep]_vars

\* the second call on a session of three sources has spawned after the
\* first did: both structured elements were written twice
C12_Witness ==
    /\ call.n = 2
    /\ Spawned
    /\ Len(procs) = 2
    /\ pendingWrites = {}
    /\ Len(_file.elems) = 3
    /\ Cardinality(DOMAIN files) = 2
    /\ \A p \in DOMAIN files : HoldsSerialization(p)

====
